---------------------------- MODULE Spec2Model ----------------------------
(***************************************************************************)
(* Model of multi_agent_doc_system: pdf_processor.py (text and metadata    *)
(* extraction behind PyPDF2) and indexing_agent.py (IndexingAgent: the     *)
(* LightRAG handle, the derivation placeholders, process_pdf_document and  *)
(* aprocess_pdf_document_and_index).                                       *)
(*                                                                         *)
(* Python values: None is <<>>, any other optional value v is <<v>>; a     *)
(* dict is a record whose DOMAIN is its key set; str is a TLA+ string.     *)
(* Callers are threads sharing one IndexingAgent; one action is one        *)
(* statement group between two accesses of shared state (the agent's       *)
(* lightrag_instance, the file system, the engine).                        *)
(*                                                                         *)
(* Spec is the agent under concurrent callers. SpecFunctions calls the     *)
(* derivation functions, the extractors and process_pdf_document directly, *)
(* on texts and max_chars values around the cuts of the program.           *)
(***************************************************************************)
EXTENDS Naturals, Sequences, FiniteSets, TLC

VARIABLES
    lightrag_instance,  \* self.lightrag_instance: None or <<id of the LightRAG object>>
    constructions,      \* how many LightRAG objects the constructor has built
    inserted,           \* texts the engine has received through ainsert
    dirs,               \* directories that exist
    fs,                 \* the file behind each path
    pc,                 \* per caller: where it stands
    local,              \* per caller: the locals of the running call
    ret,                \* per caller: how its last call ended
    calls,              \* calls started so far
    changes,            \* file changes made by other actors so far
    failures,           \* initialize_lightrag calls whose construction has failed so far
    applied             \* the direct calls of a function made so far, newest first

vars ==
    <<lightrag_instance, constructions, inserted, dirs, fs, pc, local, ret, calls, changes,
      failures, applied>>

-----------------------------------------------------------------------------
(* Bounds of the model *)

MaxCalls == 3

MaxFileChanges == 1

LongLen == 501

(* Program constants *)

SnippetChars == 200

DefaultMaxChars == 500

-----------------------------------------------------------------------------
(* Python values *)

None == <<>>

Some(v) == <<v>>

Min(a, b) == IF a < b THEN a ELSE b

\* s[:n]
Prefix(s, n) == SubSeq(s, 1, Min(n, Len(s)))

RECURSIVE Repeat(_, _)
Repeat(s, n) ==
    IF n = 0 THEN ""
    ELSE IF n % 2 = 0 THEN LET half == Repeat(s, n \div 2) IN half \o half
    ELSE s \o Repeat(s, n - 1)

\* sep.join(parts)
RECURSIVE Join(_, _)
Join(parts, sep) ==
    IF parts = <<>> THEN ""
    ELSE IF Len(parts) = 1 THEN parts[1]
    ELSE parts[1] \o sep \o Join(Tail(parts), sep)

-----------------------------------------------------------------------------
(* The environment: callers, paths, files, directories *)

Callers == {"t1", "t2"}

Paths == {"doc.pdf"}

GoodDir == "./lightrag_data"

BadDir == "/dev/null/lightrag_data"

WorkDirs == {GoodDir, BadDir}

\* os.makedirs(d, exist_ok=True) raises OSError for a path below a non-directory
Creatable(d) == d # BadDir

Info(title, author, created) ==
    [title |-> title, author |-> author, subject |-> None, creator |-> None,
     producer |-> Some("ReportLab"), creation |-> created, mod |-> None]

\* kind: missing | corrupt | unreadable (open() is refused) | pdf; encrypted: no | empty (opens with '') | locked
File(kind, encrypted, pages, meta) ==
    [kind |-> kind, encrypted |-> encrypted, pages |-> pages, meta |-> meta]

MissingFile == File("missing", "no", <<>>, None)

CorruptFile == File("corrupt", "no", <<>>, None)

LockedFile == File("pdf", "locked", <<"Secret">>, None)

BlankFile == File("pdf", "no", <<"">>, None)

NoPagesFile == File("pdf", "no", <<>>, Some(Info(Some("Empty"), None, None)))

HelloFile ==
    File("pdf", "empty", <<"Hello World">>,
         Some(Info(Some("Indexing Test Doc"), Some("Async Main"), Some("D:2024"))))

UnreadableFile == File("unreadable", "no", <<>>, None)

\* Three pages, the middle one without text; the text is LongLen + 5 long.
LongFile ==
    File("pdf", "no", <<Repeat("x", LongLen), "", "tail">>, Some(Info(None, None, Some(""))))

\* The files by name; fs holds names.
Content ==
    [name \in {"missing", "corrupt", "unreadable", "locked", "blank", "nopages", "hello",
               "long"} |->
        CASE name = "missing" -> MissingFile
          [] name = "corrupt" -> CorruptFile
          [] name = "unreadable" -> UnreadableFile
          [] name = "locked" -> LockedFile
          [] name = "blank" -> BlankFile
          [] name = "nopages" -> NoPagesFile
          [] name = "hello" -> HelloFile
          [] name = "long" -> LongFile]

\* The files the state machine puts behind a path. "unreadable" and "nopages"
\* differ from "corrupt" and "blank" only in the branch the extractors take.
Files == DOMAIN Content \ {"unreadable", "nopages"}

-----------------------------------------------------------------------------
(* pdf_processor.py *)

\* What an extractor hands back to its caller: the exception that escapes it
\* ("none" when it returns) and the value it returns.
Returns(v) == [exc |-> "none", val |-> v]

Raises(e) == [exc |-> e, val |-> None]

\* The try body shared by both extractors up to the open reader (lines 15-23,
\* 60-68): open() raises FileNotFoundError, PdfReader raises PdfReadError,
\* decrypt('') raises on a password-protected file.
OpenReader(file) ==
    IF file.kind = "missing" THEN "FileNotFoundError"
    ELSE IF file.kind = "corrupt" THEN "PdfReadError"
    ELSE IF file.kind = "unreadable" THEN "Exception"
    ELSE IF file.encrypted = "locked" THEN "DecryptError"
    ELSE "open"

\* text_parts: the page texts that are not empty, in page order (lines 25-31)
RECURSIVE TextParts(_)
TextParts(pages) ==
    IF pages = <<>> THEN <<>>
    ELSE IF Head(pages) # "" THEN <<Head(pages)>> \o TextParts(Tail(pages))
    ELSE TextParts(Tail(pages))

\* The three handlers of extract_text_from_pdf: every exception becomes "".
TextHandlers(e) ==
    IF e \in {"FileNotFoundError", "PdfReadError", "Exception"} THEN Returns("") ELSE Raises(e)

extract_text_from_pdf(file, method) ==
    IF method = "pypdf2"
    THEN LET opened == OpenReader(file)
         IN  IF opened = "DecryptError" THEN Returns("")
             ELSE IF opened # "open" THEN TextHandlers(opened)
             ELSE IF file.pages # <<>> THEN Returns(Join(TextParts(file.pages), "\n"))
             ELSE Returns("")
    ELSE Returns("")

ErrorRecord(msg, pdf_path) == [Error |-> msg, FilePath |-> pdf_path]

\* str(x) if x else None
StrIfTruthy(x) == IF x # None /\ x[1] # "" THEN x ELSE None

\* The handlers of extract_metadata_from_pdf without the last one, "except Exception"
MetadataHandlers_NoCatchAll(e, pdf_path) ==
    IF e = "FileNotFoundError" THEN Returns(ErrorRecord("File not found.", pdf_path))
    ELSE IF e = "PdfReadError"
         THEN Returns(ErrorRecord("PyPDF2 PdfReadError: EOF marker not found", pdf_path))
    ELSE Raises(e)

\* The three handlers of extract_metadata_from_pdf: every exception becomes an
\* error record that carries the path.
MetadataHandlers(e, pdf_path) ==
    IF e = "FileNotFoundError" THEN Returns(ErrorRecord("File not found.", pdf_path))
    ELSE IF e = "PdfReadError"
         THEN Returns(ErrorRecord("PyPDF2 PdfReadError: EOF marker not found", pdf_path))
    ELSE IF e = "Exception" THEN Returns(ErrorRecord("Unexpected error: read failed", pdf_path))
    ELSE Raises(e)

extract_metadata_from_pdf(pdf_path, file) ==
    LET opened == OpenReader(file)
    IN  IF opened = "DecryptError"
        THEN Returns(ErrorRecord("Encrypted PDF, decryption failed.", pdf_path))
        ELSE IF opened # "open" THEN MetadataHandlers(opened, pdf_path)
        ELSE IF file.meta # None
        THEN LET m == file.meta[1]
             IN  Returns([Title |-> m.title, Author |-> m.author, Subject |-> m.subject,
                          Creator |-> m.creator, Producer |-> m.producer,
                          CreationDate |-> StrIfTruthy(m.creation),
                          ModDate |-> StrIfTruthy(m.mod),
                          PageCount |-> Len(file.pages)])
        ELSE Returns([PageCount |-> Len(file.pages)])

-----------------------------------------------------------------------------
(* indexing_agent.py: the derivation placeholders and the record *)

NoSummary == "No text provided for summarization."

NoClassification == "No text provided for classification."

\* _summarize_text with "len(text) >= max_chars" for "len(text) > max_chars"
_summarize_text_CutsAtMaxChars(text, max_chars) ==
    IF text = "" THEN NoSummary
    ELSE "[Placeholder Summary]: "
         \o (IF Len(text) >= max_chars THEN Prefix(text, max_chars) \o "..." ELSE text)

\* _summarize_text with text[:max_chars + 1] for text[:max_chars]
_summarize_text_KeepsOneMore(text, max_chars) ==
    IF text = "" THEN NoSummary
    ELSE "[Placeholder Summary]: "
         \o (IF Len(text) > max_chars THEN Prefix(text, max_chars + 1) \o "..." ELSE text)

_summarize_text(text, max_chars) ==
    IF text = "" THEN NoSummary
    ELSE "[Placeholder Summary]: "
         \o (IF Len(text) > max_chars THEN Prefix(text, max_chars) \o "..." ELSE text)

\* _classify_document without the "if not text" test
_classify_document_NoEmptyTest(text) == "[Placeholder Classification]: General Legal Document"

_classify_document(text) ==
    IF text = "" THEN NoClassification
    ELSE "[Placeholder Classification]: General Legal Document"

\* The snippet without the [:200] cut
Snippet_Uncut(text) == IF text # "" THEN text \o "..." ELSE "N/A"

\* text[:200] + "..." if text else "N/A"
Snippet(text) == IF text # "" THEN Prefix(text, SnippetChars) \o "..." ELSE "N/A"

\* process_pdf_document with the "classification" entry left out of the record
process_pdf_document_NoClassification(pdf_path, t, m) ==
    [file_path |-> pdf_path,
     metadata |-> m.val,
     extracted_text_snippet |-> Snippet(t.val),
     full_text_char_count |-> Len(t.val),
     summary |-> _summarize_text(t.val, DefaultMaxChars)]

\* process_pdf_document once both extractors have answered: t and m are what
\* extract_text_from_pdf and extract_metadata_from_pdf handed back.
process_pdf_document(pdf_path, t, m) ==
    IF t.exc # "none" THEN [error |-> t.exc, path |-> pdf_path]
    ELSE IF m.exc # "none" THEN [error |-> m.exc, path |-> pdf_path]
    ELSE [file_path |-> pdf_path,
          metadata |-> m.val,
          extracted_text_snippet |-> Snippet(t.val),
          full_text_char_count |-> Len(t.val),
          summary |-> _summarize_text(t.val, DefaultMaxChars),
          classification |-> _classify_document(t.val)]

StatusIndexed == "Simulated as successfully indexed by LightRAG"

StatusNoText == "Skipped (no text)"

\* The status without the "if full_text" test: indexing is never skipped
IndexingStatus_NoEmptyTest(full_text) == StatusIndexed

\* lines 120-137: the status the re-extracted text decides. The try body only
\* prints and assigns (ainsert is commented out), so nothing reaches the engine
\* and the except branch ("Failed: ...") has nothing to catch.
IndexingStatus(full_text) == IF full_text # "" THEN StatusIndexed ELSE StatusNoText

-----------------------------------------------------------------------------
(* The state machine *)

\* The locals of a call. reads, stages, handle and failed_before record what
\* the call has observed so far: the name of the file each extraction read, the
\* stages in the order they ran, the value of self.lightrag_instance the call
\* saw when it began, and how many constructions had failed by then.
Blank ==
    [op |-> "none", arg |-> "", t |-> None, info |-> None, new |-> None,
     reads |-> <<>>, stages |-> <<>>, handle |-> None, failed_before |-> 0]

NoRet ==
    [op |-> "none", arg |-> "", outcome |-> "none", value |-> None, new |-> None,
     reads |-> <<>>, stages |-> <<>>, handle |-> None, failed_before |-> 0]

\* How a call that ends leaves its caller: outcome is "returned" or "raised",
\* value is the returned value (None, or <<dict>>).
Ended(l, outcome, value) ==
    [op |-> l.op, arg |-> l.arg, outcome |-> outcome, value |-> value, new |-> l.new,
     reads |-> l.reads, stages |-> l.stages, handle |-> l.handle,
     failed_before |-> l.failed_before]

Init ==
    /\ lightrag_instance = None
    /\ constructions = 0
    /\ inserted = {}
    /\ dirs = {}
    /\ fs \in [Paths -> Files]
    /\ pc = [c \in Callers |-> "idle"]
    /\ local = [c \in Callers |-> Blank]
    /\ ret = [c \in Callers |-> NoRet]
    /\ calls = 0
    /\ changes = 0
    /\ failures = 0
    /\ applied = <<>>

\* initialize_lightrag that remembers a failed construction: once one has
\* failed, a call returns without constructing anything
InitializeLightrag_CachesFailure(c, working_dir) ==
    /\ pc[c] = "idle"
    /\ calls < MaxCalls
    /\ calls' = calls + 1
    /\ LET l == [Blank EXCEPT !.op = "initialize_lightrag", !.arg = working_dir,
                              !.handle = lightrag_instance,
                              !.failed_before = failures,
                              !.stages = <<"makedirs">>]
       IN  IF Creatable(working_dir) /\ failures = 0
           THEN /\ dirs' = dirs \cup {working_dir}
                /\ pc' = [pc EXCEPT ![c] = "init_construct"]
                /\ local' = [local EXCEPT ![c] = l]
                /\ ret' = [ret EXCEPT ![c] = NoRet]
           ELSE /\ dirs' = IF Creatable(working_dir) THEN dirs \cup {working_dir} ELSE dirs
                /\ pc' = pc
                /\ local' = local
                /\ ret' = [ret EXCEPT ![c] =
                              IF Creatable(working_dir)
                              THEN Ended(l, "returned", None)
                              ELSE Ended(l, "raised", Some([exception |-> "OSError"]))]
    /\ UNCHANGED <<lightrag_instance, constructions, inserted, fs, changes, failures, applied>>

\* initialize_lightrag, lines 28-31: os.makedirs runs before the try block, so
\* its OSError leaves the method.
InitializeLightrag(c, working_dir) ==
    /\ pc[c] = "idle"
    /\ calls < MaxCalls
    /\ calls' = calls + 1
    /\ LET l == [Blank EXCEPT !.op = "initialize_lightrag", !.arg = working_dir,
                              !.handle = lightrag_instance,
                              !.failed_before = failures,
                              !.stages = <<"makedirs">>]
       IN  IF Creatable(working_dir)
           THEN /\ dirs' = dirs \cup {working_dir}
                /\ pc' = [pc EXCEPT ![c] = "init_construct"]
                /\ local' = [local EXCEPT ![c] = l]
                /\ ret' = [ret EXCEPT ![c] = NoRet]
           ELSE /\ dirs' = dirs
                /\ pc' = pc
                /\ local' = local
                /\ ret' = [ret EXCEPT ![c] = Ended(l, "raised", Some([exception |-> "OSError"]))]
    /\ UNCHANGED <<lightrag_instance, constructions, inserted, fs, changes, failures, applied>>

\* lines 36-50, the constructors: OpenAIEmbedder, OpenAIChatLLM and LightRAG
\* either all succeed, and a new LightRAG object exists, or one of them raises.
Construct(c) ==
    /\ pc[c] = "init_construct"
    /\ \/ /\ constructions' = constructions + 1
          /\ local' = [local EXCEPT ![c].new = Some(constructions + 1),
                                    ![c].stages = Append(@, "construct")]
          /\ pc' = [pc EXCEPT ![c] = "init_assign"]
       \/ /\ constructions' = constructions
          /\ local' = [local EXCEPT ![c].stages = Append(@, "construct")]
          /\ pc' = [pc EXCEPT ![c] = "init_except"]
    /\ UNCHANGED <<lightrag_instance, inserted, dirs, fs, ret, calls, changes, failures,
                   applied>>

\* line 44, the assignment: self.lightrag_instance = <the new object>
AssignInstance(c) ==
    /\ pc[c] = "init_assign"
    /\ lightrag_instance' = local[c].new
    /\ pc' = [pc EXCEPT ![c] = "idle"]
    /\ ret' = [ret EXCEPT ![c] = Ended([local[c] EXCEPT !.stages = Append(@, "assign")],
                                          "returned", None)]
    /\ local' = [local EXCEPT ![c] = Blank]
    /\ UNCHANGED <<constructions, inserted, dirs, fs, calls, changes, failures, applied>>

\* lines 56-58: except Exception: self.lightrag_instance = None
ClearInstance(c) ==
    /\ pc[c] = "init_except"
    /\ lightrag_instance' = None
    /\ failures' = failures + 1
    /\ pc' = [pc EXCEPT ![c] = "idle"]
    /\ ret' = [ret EXCEPT ![c] = Ended([local[c] EXCEPT !.stages = Append(@, "except")],
                                          "returned", None)]
    /\ local' = [local EXCEPT ![c] = Blank]
    /\ UNCHANGED <<constructions, inserted, dirs, fs, calls, changes, applied>>

\* process_pdf_document up to line 82: text = extract_text_from_pdf(pdf_path)
ExtractText(c, op, pdf_path) ==
    /\ pc' = [pc EXCEPT ![c] = "proc_metadata"]
    /\ local' = [local EXCEPT ![c] =
                    [Blank EXCEPT !.op = op, !.arg = pdf_path,
                                  !.handle = lightrag_instance,
                                  !.t = Some(extract_text_from_pdf(Content[fs[pdf_path]], "pypdf2")),
                                  !.reads = <<fs[pdf_path]>>,
                                  !.stages = <<"extract_text">>]]
    /\ ret' = [ret EXCEPT ![c] = NoRet]

\* A direct call of process_pdf_document
Process(c, pdf_path) ==
    /\ pc[c] = "idle"
    /\ calls < MaxCalls
    /\ calls' = calls + 1
    /\ ExtractText(c, "process_pdf_document", pdf_path)
    /\ UNCHANGED <<lightrag_instance, constructions, inserted, dirs, fs, changes, failures,
                   applied>>

\* aprocess_pdf_document_and_index without the "if not self.lightrag_instance"
\* guard: it goes on to process_pdf_document whatever the handle holds
Aprocess_NoGuard(c, pdf_path) ==
    /\ pc[c] = "idle"
    /\ calls < MaxCalls
    /\ calls' = calls + 1
    /\ ExtractText(c, "aprocess_pdf_document_and_index", pdf_path)
    /\ UNCHANGED <<lightrag_instance, constructions, inserted, dirs, fs, changes, failures,
                   applied>>

\* aprocess_pdf_document_and_index that builds the engine itself when the
\* handle is empty, and goes on
Aprocess_LazyInit(c, pdf_path) ==
    /\ pc[c] = "idle"
    /\ calls < MaxCalls
    /\ calls' = calls + 1
    /\ IF lightrag_instance = None
       THEN /\ lightrag_instance' = Some(constructions + 1)
            /\ constructions' = constructions + 1
       ELSE UNCHANGED <<lightrag_instance, constructions>>
    /\ ExtractText(c, "aprocess_pdf_document_and_index", pdf_path)
    /\ UNCHANGED <<inserted, dirs, fs, changes, failures, applied>>

\* aprocess_pdf_document_and_index, lines 104-111: without an instance it
\* returns None; with one it calls process_pdf_document.
Aprocess(c, pdf_path) ==
    /\ pc[c] = "idle"
    /\ calls < MaxCalls
    /\ calls' = calls + 1
    /\ IF lightrag_instance = None
       THEN /\ ret' = [ret EXCEPT ![c] =
                          Ended([Blank EXCEPT !.op = "aprocess_pdf_document_and_index",
                                              !.arg = pdf_path,
                                              !.handle = lightrag_instance],
                                "returned", None)]
            /\ UNCHANGED <<pc, local>>
       ELSE ExtractText(c, "aprocess_pdf_document_and_index", pdf_path)
    /\ UNCHANGED <<lightrag_instance, constructions, inserted, dirs, fs, changes, failures,
                   applied>>

\* process_pdf_document, lines 83-102, and for aprocess lines 113-115: an
\* error record is returned as it is.
ExtractMetadata(c) ==
    /\ pc[c] = "proc_metadata"
    /\ LET l    == local[c]
           m    == extract_metadata_from_pdf(l.arg, Content[fs[l.arg]])
           info == process_pdf_document(l.arg, l.t[1], m)
           done == [l EXCEPT !.reads = Append(l.reads, fs[l.arg]),
                             !.stages = IF "error" \in DOMAIN info
                                        THEN Append(l.stages, "extract_metadata")
                                        ELSE l.stages \o <<"extract_metadata", "summarize",
                                                           "classify">>,
                             !.info = Some(info)]
       IN  IF l.op = "process_pdf_document" \/ "error" \in DOMAIN info
           THEN /\ pc' = [pc EXCEPT ![c] = "idle"]
                /\ ret' = [ret EXCEPT ![c] = Ended(done, "returned", Some(info))]
                /\ local' = [local EXCEPT ![c] = Blank]
           ELSE /\ pc' = [pc EXCEPT ![c] = "index"]
                /\ local' = [local EXCEPT ![c] = done]
                /\ ret' = ret
    /\ UNCHANGED <<lightrag_instance, constructions, inserted, dirs, fs, calls, changes,
                   failures, applied>>

\* lines 118-139: the text is extracted again and decides indexing_status.
\* Nothing is handed to the engine: inserted stays as it is.
Index(c) ==
    /\ pc[c] = "index"
    /\ LET l    == local[c]
           full == extract_text_from_pdf(Content[fs[l.arg]], "pypdf2")
           done == [l EXCEPT !.reads = Append(l.reads, fs[l.arg]),
                             !.stages = l.stages \o <<"extract_text", "index">>]
       IN  /\ pc' = [pc EXCEPT ![c] = "idle"]
           /\ local' = [local EXCEPT ![c] = Blank]
           /\ ret' = [ret EXCEPT ![c] =
                         IF full.exc # "none"
                         THEN Ended(done, "raised", Some([exception |-> full.exc]))
                         ELSE Ended(done, "returned",
                                    Some(l.info[1] @@
                                         ("indexing_status" :> IndexingStatus(full.val))))]
    /\ UNCHANGED <<lightrag_instance, constructions, inserted, dirs, fs, calls, changes,
                   failures, applied>>

\* Another actor replaces, removes or creates the file behind a path.
FileChange(p, f) ==
    /\ changes < MaxFileChanges
    /\ f # fs[p]
    /\ fs' = [fs EXCEPT ![p] = f]
    /\ changes' = changes + 1
    /\ UNCHANGED <<lightrag_instance, constructions, inserted, dirs, pc, local, ret, calls,
                   failures, applied>>

Next ==
    \/ \E c \in Callers, d \in WorkDirs : InitializeLightrag(c, d)
    \/ \E c \in Callers : Construct(c)
    \/ \E c \in Callers : AssignInstance(c)
    \/ \E c \in Callers : ClearInstance(c)
    \/ \E c \in Callers, p \in Paths : Process(c, p)
    \/ \E c \in Callers, p \in Paths : Aprocess(c, p)
    \/ \E c \in Callers : ExtractMetadata(c)
    \/ \E c \in Callers : Index(c)
    \/ \E p \in Paths, f \in Files : FileChange(p, f)

Spec == Init /\ [][Next]_vars

-----------------------------------------------------------------------------
(* Direct calls of the functions, on inputs the state machine does not reach *)

\* Longest of the short texts and smallest max_chars values
MaxShort == 3

\* Text lengths: the short ones, "Hello World", and the lengths around the two
\* cuts of the program (text[:200], text[:max_chars] with the default 500)
TextLens ==
    (0..MaxShort) \cup {11, LongLen}
    \cup {SnippetChars - 1, SnippetChars, SnippetChars + 1}
    \cup {DefaultMaxChars - 1, DefaultMaxChars, DefaultMaxChars + 1}

\* Two texts of each length that differ in their last character only
Texts ==
    {Repeat("a", n) : n \in TextLens}
    \cup {Repeat("a", n - 1) \o "b" : n \in TextLens \ {0}}

MaxCharsValues == (0..MaxShort) \cup {SnippetChars, DefaultMaxChars}

\* method arguments of extract_text_from_pdf: the default and another one
Methods == {"pypdf2", "pdfminer"}

\* One call: the function, its arguments, what it handed back
Call(fn, args, out) == [fn |-> fn, args |-> args, out |-> out]

\* What the other variables do while a function is called directly: nothing
Untouched ==
    UNCHANGED <<lightrag_instance, constructions, inserted, dirs, fs, pc, local, ret, calls,
                changes, failures>>

\* A run calls one function once. _summarize_text may be called a second time
\* with the same max_chars, so that its results on two texts can be compared.
CallSummarize(text, max_chars) ==
    /\ \/ applied = <<>>
       \/ /\ Len(applied) = 1
          /\ applied[1].fn = "_summarize_text"
          /\ applied[1].args.max_chars = max_chars
    /\ applied' = <<Call("_summarize_text", [text |-> text, max_chars |-> max_chars],
                         _summarize_text(text, max_chars))>> \o applied
    /\ Untouched

CallClassify(text) ==
    /\ applied = <<>>
    /\ applied' = <<Call("_classify_document", [text |-> text], _classify_document(text))>>
    /\ Untouched

CallExtractText(pdf_path, name, method) ==
    /\ applied = <<>>
    /\ applied' = <<Call("extract_text_from_pdf",
                         [pdf_path |-> pdf_path, file |-> name, method |-> method],
                         extract_text_from_pdf(Content[name], method))>>
    /\ Untouched

CallExtractMetadata(pdf_path, name) ==
    /\ applied = <<>>
    /\ applied' = <<Call("extract_metadata_from_pdf", [pdf_path |-> pdf_path, file |-> name],
                         extract_metadata_from_pdf(pdf_path, Content[name]))>>
    /\ Untouched

\* process_pdf_document when extract_text_from_pdf handed back text and the
\* metadata came from the file called name
CallProcess(pdf_path, text, name) ==
    /\ applied = <<>>
    /\ applied' = <<Call("process_pdf_document",
                         [pdf_path |-> pdf_path, text |-> text, file |-> name],
                         process_pdf_document(pdf_path, Returns(text),
                                              extract_metadata_from_pdf(pdf_path,
                                                                        Content[name])))>>
    /\ Untouched

InitFunctions ==
    /\ lightrag_instance = None
    /\ constructions = 0
    /\ inserted = {}
    /\ dirs = {}
    /\ fs = [p \in Paths |-> "hello"]
    /\ pc = [c \in Callers |-> "idle"]
    /\ local = [c \in Callers |-> Blank]
    /\ ret = [c \in Callers |-> NoRet]
    /\ calls = 0
    /\ changes = 0
    /\ failures = 0
    /\ applied = <<>>

NextFunctions ==
    \/ \E text \in Texts, max_chars \in MaxCharsValues : CallSummarize(text, max_chars)
    \/ \E text \in Texts : CallClassify(text)
    \/ \E p \in Paths, name \in DOMAIN Content, method \in Methods :
          CallExtractText(p, name, method)
    \/ \E p \in Paths, name \in DOMAIN Content : CallExtractMetadata(p, name)
    \/ \E p \in Paths, text \in Texts, name \in DOMAIN Content : CallProcess(p, text, name)

SpecFunctions == InitFunctions /\ [][NextFunctions]_vars

-----------------------------------------------------------------------------
(* Vocabulary of the properties *)

ProcessOp == "process_pdf_document"

AprocessOp == "aprocess_pdf_document_and_index"

InitOp == "initialize_lightrag"

\* Caller c's last call was op and has ended.
Finished(c, op) == ret[c].op = op /\ ret[c].outcome # "none"

\* Caller c's last call was op and returned a dict.
ReturnedRecord(c, op) ==
    /\ ret[c].op = op
    /\ ret[c].outcome = "returned"
    /\ ret[c].value # None

Rec(c) == ret[c].value[1]

LaterStageKeys == {"summary", "classification", "indexing_status"}

\* The file holds text a reader can recover: it opens, and some page has text.
HasText(file) ==
    /\ file.kind = "pdf"
    /\ file.encrypted # "locked"
    /\ \E i \in 1..Len(file.pages) : file.pages[i] # ""

\* The file opens without an error: extraction of it does not fail.
Opens(file) == file.kind = "pdf" /\ file.encrypted # "locked"

\* indexing_status values: submitted, skipped-no-text, failed(reason)
IsFailed(status) == Len(status) >= 8 /\ SubSeq(status, 1, 8) = "Failed: "

IsIndexingStatus(status) == status \in {StatusIndexed, StatusNoText} \/ IsFailed(status)

\* Callers inside initialize_lightrag
Initializing == {c \in Callers : pc[c] \in {"init_construct", "init_assign", "init_except"}}

-----------------------------------------------------------------------------
(* The claims *)

\* C1 (as claimed; the code does otherwise): when no file exists at the path
\* throughout the call, process_pdf_document, and
\* aprocess_pdf_document_and_index on a ready handle, return a record that has
\* "error" and has none of summary, classification, indexing_status.
C1_MissingFileGivesErrorRecord ==
    \A c \in Callers :
        ( /\ ret[c].op \in {ProcessOp, AprocessOp}
          /\ ret[c].outcome # "none"
          /\ ret[c].reads # <<>>
          /\ \A i \in 1..Len(ret[c].reads) : ret[c].reads[i] = "missing" )
        => /\ ret[c].outcome = "returned"
           /\ ret[c].value # None
           /\ "error" \in DOMAIN Rec(c)
           /\ DOMAIN Rec(c) \cap LaterStageKeys = {}

C4_SecondInitKeepsEngine ==
    \A c \in Callers :
        ( /\ ret[c].op = InitOp
          /\ ret[c].outcome = "returned"
          /\ ret[c].handle # None )
        => /\ constructions = 1
           /\ lightrag_instance = ret[c].handle

\* C5 (as claimed; the code does otherwise): every initialize_lightrag call
\* returns to its caller; none ends by raising.
C5_InitNeverRaises ==
    \A c \in Callers : Finished(c, InitOp) => ret[c].outcome = "returned"

\* C6 (as claimed; the code does otherwise): of the initialize_lightrag calls
\* that began on an empty handle at most one is running at any time, and the
\* constructor has run at most once for them.
C6_InitSerialized ==
    LET first == {c \in Initializing : local[c].handle = None}
    IN  /\ Cardinality(first) <= 1
        /\ Cardinality({c \in first : local[c].new # None}) <= 1

\* C7 (as claimed; the code does otherwise): a call that found an instance and
\* whose text for indexing was not empty handed that text to the engine and set
\* indexing_status to submitted, or set it to failed(reason).
C7_FullTextSubmitted ==
    \A c \in Callers :
        ( /\ ReturnedRecord(c, AprocessOp)
          /\ ret[c].handle # None
          /\ Len(ret[c].reads) = 3
          /\ HasText(Content[ret[c].reads[3]]) )
        => \/ /\ Rec(c).indexing_status = StatusIndexed
              /\ \E text \in inserted : Len(text) = Rec(c).full_text_char_count
           \/ IsFailed(Rec(c).indexing_status)

\* C8: a call that found an instance, on a document that opens and has no text
\* each time it is read, returned a record with indexing_status
\* skipped-no-text and with the no-text summary and classification, and the
\* engine received nothing.
C8_EmptyTextSkipsIndexing ==
    \A c \in Callers :
        ( /\ Finished(c, AprocessOp)
          /\ ret[c].handle # None
          /\ \A i \in 1..Len(ret[c].reads) :
                Opens(Content[ret[c].reads[i]]) /\ ~HasText(Content[ret[c].reads[i]]) )
        => /\ ret[c].outcome = "returned"
           /\ ret[c].value # None
           /\ LaterStageKeys \subseteq DOMAIN Rec(c)
           /\ Rec(c).indexing_status = StatusNoText
           /\ Rec(c).summary = NoSummary
           /\ Rec(c).classification = NoClassification
           /\ Rec(c).full_text_char_count = 0
           /\ inserted = {}

\* C8 witness: such a call has returned.
C8_Witness ==
    \E c \in Callers :
        /\ ReturnedRecord(c, AprocessOp)
        /\ ret[c].handle # None
        /\ Len(ret[c].reads) = 3
        /\ \A i \in 1..3 : ret[c].reads[i] = "blank"
        /\ Rec(c).indexing_status = StatusNoText

C10_HelloWorldRecord ==
    \A c \in Callers :
        ( /\ Finished(c, AprocessOp)
          /\ ret[c].handle # None
          /\ \A i \in 1..Len(ret[c].reads) : ret[c].reads[i] = "hello" )
        => /\ ret[c].outcome = "returned"
           /\ ret[c].value # None
           /\ LaterStageKeys \subseteq DOMAIN Rec(c)
           /\ Rec(c).full_text_char_count = 11
           /\ Rec(c).extracted_text_snippet = "Hello World"
           /\ Rec(c).summary # ""
           /\ Rec(c).classification # ""
           /\ Rec(c).indexing_status = StatusIndexed

-----------------------------------------------------------------------------
(* Claims about the functions called directly (SpecFunctions) *)

\* The direct calls of fn made so far
CallsOf(fn) == {i \in 1..Len(applied) : applied[i].fn = fn}

SummaryLabel == "[Placeholder Summary]: "

Ellipsis == "..."

\* C11 (as claimed; the code does otherwise): for every non-empty text no
\* longer than max_chars, _summarize_text(text, max_chars) is exactly text,
\* nothing prepended and no truncation marker appended.
C11_ShortTextReturnedAsIs ==
    \A i \in CallsOf("_summarize_text") :
        LET a == applied[i].args
        IN  (a.text # "" /\ Len(a.text) <= a.max_chars) => applied[i].out = a.text

\* C11 (amended): for every non-empty text no longer than max_chars,
\* _summarize_text(text, max_chars) is the label "[Placeholder Summary]: "
\* followed by exactly text: the whole text, and no truncation marker after it.
C11_ShortTextLabelledOnly ==
    \A i \in CallsOf("_summarize_text") :
        LET a == applied[i].args
        IN  (a.text # "" /\ Len(a.text) <= a.max_chars)
            => /\ applied[i].out = SummaryLabel \o a.text
               /\ Len(applied[i].out) = Len(SummaryLabel) + Len(a.text)

\* C11 witness: a text exactly max_chars long has been summarized and came back
\* whole behind the label.
C11_Witness ==
    \E i \in CallsOf("_summarize_text") :
        /\ applied[i].args.text # ""
        /\ Len(applied[i].args.text) = applied[i].args.max_chars
        /\ applied[i].args.max_chars = SnippetChars
        /\ applied[i].out = SummaryLabel \o applied[i].args.text

\* Calls i of _summarize_text whose text is longer than max_chars
LongCalls ==
    {i \in CallsOf("_summarize_text") : Len(applied[i].args.text) > applied[i].args.max_chars}

\* s ends with the truncation marker
EndsWithEllipsis(s) ==
    Len(s) >= Len(Ellipsis) /\ SubSeq(s, Len(s) - Len(Ellipsis) + 1, Len(s)) = Ellipsis

\* Two calls got the same first max_chars characters, and the same max_chars
SameHead(i, j) ==
    /\ applied[i].args.max_chars = applied[j].args.max_chars
    /\ Prefix(applied[i].args.text, applied[i].args.max_chars)
       = Prefix(applied[j].args.text, applied[j].args.max_chars)

\* C12 (as claimed; the code does otherwise): for every text longer than
\* max_chars, _summarize_text(text, max_chars) starts with the first max_chars
\* characters of text, ends with the truncation marker, and two such texts with the
\* same first max_chars characters get the same summary.
C12_LongTextStartsWithHead ==
    /\ \A i \in LongCalls :
          LET a == applied[i].args
          IN  /\ Prefix(applied[i].out, a.max_chars) = Prefix(a.text, a.max_chars)
              /\ EndsWithEllipsis(applied[i].out)
    /\ \A i, j \in LongCalls : SameHead(i, j) => applied[i].out = applied[j].out

\* C12 (amended): for every text longer than max_chars,
\* _summarize_text(text, max_chars) is the label "[Placeholder Summary]: ", then
\* the first max_chars characters of text, then the truncation marker "..." and
\* nothing else; two such texts with the same first max_chars characters get
\* the same summary.
C12_LongTextLabelHeadEllipsis ==
    /\ \A i \in LongCalls :
          LET a   == applied[i].args
              out == applied[i].out
              n   == Len(SummaryLabel)
          IN  /\ Len(out) = n + a.max_chars + Len(Ellipsis)
              /\ SubSeq(out, 1, n) = SummaryLabel
              /\ SubSeq(out, n + 1, n + a.max_chars) = Prefix(a.text, a.max_chars)
              /\ EndsWithEllipsis(out)
    /\ \A i, j \in LongCalls : SameHead(i, j) => applied[i].out = applied[j].out

\* C12 witness: two different texts longer than the default max_chars, alike in
\* their first max_chars characters, have been summarized to the same string.
C12_Witness ==
    /\ LongCalls = {1, 2}
    /\ applied[1].args.text # applied[2].args.text
    /\ applied[1].args.max_chars = DefaultMaxChars
    /\ SameHead(1, 2)
    /\ applied[1].out = applied[2].out
    /\ EndsWithEllipsis(applied[1].out)

\* C13: _summarize_text("", max_chars), for every max_chars, and
\* _classify_document("") hand back their "no input" markers, which are not
\* the empty string; for every non-empty text _classify_document hands back a
\* non-empty label other than its "no input" marker. No call raises: each one
\* has handed back a string.
C13_NoInputMarkers ==
    /\ \A i \in CallsOf("_summarize_text") :
          applied[i].args.text = ""
          => applied[i].out = NoSummary /\ Len(applied[i].out) > 0
    /\ \A i \in CallsOf("_classify_document") :
          IF applied[i].args.text = ""
          THEN applied[i].out = NoClassification /\ Len(applied[i].out) > 0
          ELSE Len(applied[i].out) > 0 /\ applied[i].out # NoClassification

\* C13 witness: _classify_document("") has been called and handed back its marker.
C13_Witness ==
    \E i \in CallsOf("_classify_document") :
        applied[i].args.text = "" /\ applied[i].out = NoClassification

\* C14: for every file that is missing or does not read (not found, broken PDF
\* structure, decryption failure, any other read error) extract_text_from_pdf
\* hands back "" and extract_metadata_from_pdf hands back a record with "Error"
\* and with the path under "FilePath", which no populated metadata record has
\* (those have "PageCount" and no "Error"); neither function raises, whatever
\* the file.
C14_ExtractorsSwallowFailures ==
    /\ \A i \in CallsOf("extract_text_from_pdf") :
          /\ applied[i].out.exc = "none"
          /\ ~Opens(Content[applied[i].args.file]) => applied[i].out.val = ""
    /\ \A i \in CallsOf("extract_metadata_from_pdf") :
          LET a == applied[i].args
              m == applied[i].out.val
          IN  /\ applied[i].out.exc = "none"
              /\ IF Opens(Content[a.file])
                 THEN "PageCount" \in DOMAIN m /\ "Error" \notin DOMAIN m
                 ELSE /\ DOMAIN m = {"Error", "FilePath"}
                      /\ m.FilePath = a.pdf_path
                      /\ Len(m.Error) > 0

\* C14 witness: extract_metadata_from_pdf has met a read error that is neither
\* "not found" nor a PdfReadError, and handed back the error record.
C14_Witness ==
    \E i \in CallsOf("extract_metadata_from_pdf") :
        /\ OpenReader(Content[applied[i].args.file]) = "Exception"
        /\ applied[i].out = Returns(ErrorRecord("Unexpected error: read failed",
                                                applied[i].args.pdf_path))

\* C15 (as claimed; the code does otherwise): in every record
\* process_pdf_document returns, extracted_text_snippet is at most 200
\* characters long, it is "N/A" exactly when the extracted text is empty, and
\* then full_text_char_count is 0.
C15_SnippetWithinCap ==
    \A i \in CallsOf("process_pdf_document") :
        LET text == applied[i].args.text
            rec  == applied[i].out
        IN  /\ Len(rec.extracted_text_snippet) <= SnippetChars
            /\ rec.extracted_text_snippet = "N/A" <=> text = ""
            /\ text = "" => rec.full_text_char_count = 0

\* C15 (amended): in every record process_pdf_document returns,
\* extracted_text_snippet is at most 203 characters long (200 characters of
\* text and the 3 of "..."), it is "N/A" exactly when the extracted text is
\* empty, and then full_text_char_count is 0; full_text_char_count is the
\* length of the whole text.
C15_SnippetWithinCapAndEllipsis ==
    \A i \in CallsOf("process_pdf_document") :
        LET text == applied[i].args.text
            rec  == applied[i].out
        IN  /\ Len(rec.extracted_text_snippet) <= SnippetChars + Len(Ellipsis)
            /\ rec.extracted_text_snippet = "N/A" <=> text = ""
            /\ text = "" => rec.full_text_char_count = 0
            /\ rec.full_text_char_count = Len(text)

\* C15 witness: a text one character over the cut has been processed; its
\* snippet is 203 characters long.
C15_Witness ==
    \E i \in CallsOf("process_pdf_document") :
        /\ Len(applied[i].args.text) = SnippetChars + 1
        /\ Len(applied[i].out.extracted_text_snippet) = SnippetChars + Len(Ellipsis)
        /\ applied[i].out.full_text_char_count = SnippetChars + 1

-----------------------------------------------------------------------------
(* Claims about the agent (Spec), continued *)

\* Caller c's last call was initialize_lightrag, it began after a construction
\* had failed, and it has returned.
RetriedInit(c) ==
    /\ ret[c].op = InitOp
    /\ ret[c].outcome = "returned"
    /\ ret[c].failed_before > 0

\* Every extraction of caller c's last call read a file with text.
ReadTextOnly(c) ==
    \A i \in 1..Len(ret[c].reads) : HasText(Content[ret[c].reads[i]])

\* C16: a failed construction is not remembered. An initialize_lightrag call
\* that begins after one has failed runs the constructors again; when they
\* succeed it builds a new object and its assignment leaves the handle holding
\* that object; and aprocess_pdf_document_and_index, begun on that handle for a
\* document with text, returns a record whose indexing_status is the "indexed"
\* one.
C16_FailedInitRetried ==
    /\ [](\A c \in Callers :
            RetriedInit(c)
            => /\ Len(ret[c].stages) = 3
               /\ ret[c].stages[2] = "construct"
               /\ ret[c].new # None
                  => ret[c].stages[3] = "assign" /\ ret[c].new # ret[c].handle)
    /\ [][\A c \in Callers :
            (pc[c] = "init_assign" /\ pc'[c] = "idle" /\ local[c].failed_before > 0)
            => lightrag_instance' # None /\ lightrag_instance' = local[c].new]_vars
    /\ [](\A c, d \in Callers :
            ( /\ RetriedInit(c)
              /\ ret[c].new # None
              /\ Finished(d, AprocessOp)
              /\ ret[d].handle = ret[c].new
              /\ ReadTextOnly(d) )
            => /\ ReturnedRecord(d, AprocessOp)
               /\ Rec(d).indexing_status = StatusIndexed)

\* C16 witness: one caller's initialize_lightrag, begun after a failed
\* construction, has built an object, and the other caller's
\* aprocess_pdf_document_and_index began on that object, read text and
\* returned the "indexed" status.
C16_Witness ==
    \E c, d \in Callers :
        /\ RetriedInit(c)
        /\ ret[c].handle = None
        /\ ret[c].new # None
        /\ ReturnedRecord(d, AprocessOp)
        /\ ret[d].handle = ret[c].new
        /\ ReadTextOnly(d)
        /\ Rec(d).indexing_status = StatusIndexed

\* The step is a step of process_pdf_document or
\* aprocess_pdf_document_and_index run by caller c: the call begins, moves on
\* or ends.
DocumentStep(c) ==
    \/ pc[c] \in {"proc_metadata", "index"} /\ pc'[c] # pc[c]
    \/ pc[c] = "idle" /\ pc'[c] = "proc_metadata"
    \/ /\ pc' = pc
       /\ calls' = calls + 1
       /\ ret'[c].op = AprocessOp
       /\ ret'[c].outcome = "returned"
       /\ \A d \in Callers \ {c} : ret'[d] = ret[d]

\* C17: no step of process_pdf_document or aprocess_pdf_document_and_index
\* changes self.lightrag_instance or builds an engine, whatever the handle holds
\* and however extraction ends; a step that changes the handle is the last
\* step of an initialize_lightrag call.
C17_DocumentCallsKeepHandle ==
    /\ [][\A c \in Callers :
            DocumentStep(c)
            => /\ lightrag_instance' = lightrag_instance
               /\ constructions' = constructions
               /\ failures' = failures]_vars
    /\ [][lightrag_instance' # lightrag_instance
          => \E c \in Callers :
                pc[c] \in {"init_assign", "init_except"} /\ pc'[c] = "idle"]_vars

\* C17 witness: an aprocess_pdf_document_and_index call has run to its end on a
\* ready handle, a process_pdf_document call has ended too, and the handle is the
\* one object ever built.
C17_Witness ==
    \E c, d \in Callers :
        /\ ReturnedRecord(c, AprocessOp)
        /\ "indexing_status" \in DOMAIN Rec(c)
        /\ ReturnedRecord(d, ProcessOp)
        /\ constructions = 1
        /\ lightrag_instance = Some(1)
        /\ ret[c].handle = lightrag_instance

\* The place of a stage in the pipeline: extraction, derivation, indexing
StageRank(stage) ==
    IF stage \in {"extract_text", "extract_metadata"} THEN 1
    ELSE IF stage \in {"summarize", "classify"} THEN 2
    ELSE 3

\* C18 (as claimed; the code does otherwise): the stages of every
\* aprocess_pdf_document_and_index call that has ended ran in pipeline order:
\* every extraction before summary and classification, these before the
\* indexing step, and no extraction after them.
C18_StagesInPipelineOrder ==
    \A c \in Callers :
        Finished(c, AprocessOp)
        => \A i, j \in 1..Len(ret[c].stages) :
              i < j => StageRank(ret[c].stages[i]) <= StageRank(ret[c].stages[j])

\* C19 (as claimed; the code does otherwise): no step takes the handle from
\* ready to not ready: once self.lightrag_instance holds an engine it holds one
\* after every later step, a failed construction of a further
\* initialize_lightrag call included, and an aprocess_pdf_document_and_index
\* call that begins then is not turned away for want of an engine.
C19_ReadyStaysReady ==
    [][lightrag_instance # None
       => /\ lightrag_instance' # None
          /\ \A c \in Callers :
                (DocumentStep(c) /\ ret'[c].op = AprocessOp /\ ret'[c].outcome = "returned")
                => ret'[c].stages # <<>>]_vars

\* C20 (as claimed; the code does otherwise): in every record
\* aprocess_pdf_document_and_index returns, also when the file was changed
\* during the call, indexing_status is "Skipped (no text)" only if
\* full_text_char_count is 0, and the indexed or failed status only if it is
\* more than 0.
C20_StatusAgreesWithLength ==
    \A c \in Callers :
        (ReturnedRecord(c, AprocessOp) /\ "indexing_status" \in DOMAIN Rec(c))
        => /\ Rec(c).indexing_status = StatusNoText => Rec(c).full_text_char_count = 0
           /\ (Rec(c).indexing_status = StatusIndexed \/ IsFailed(Rec(c).indexing_status))
              => Rec(c).full_text_char_count > 0

=============================================================================
